---- MODULE Spec2Model ----
(***************************************************************************)
(* Model of the task queue and notification pipeline of the server:       *)
(*   - InMemoryQueue (server/src/queue/InMemoryQueue.ts)                  *)
(*   - POST /api/process (server/src/routes/api.ts)                       *)
(*   - the socket.io 'process-request' handler and the worker 'message'   *)
(*     and 'error' handlers (server/src/index.ts)                         *)
(*   - the worker thread (server/src/workers/processWorker.ts)            *)
(*   - gracefulShutdown on SIGTERM / SIGINT (server/src/index.ts)          *)
(*                                                                         *)
(* Strings are sequences of string tokens, so that string concatenation   *)
(* is \o and two strings are equal iff they are built from the same       *)
(* tokens.  An optional field of a JavaScript object that is undefined    *)
(* is a field that is absent from the record's DOMAIN.                    *)
(*                                                                         *)
(* Node runs every handler on one thread.  A handler runs up to its first *)
(* await as one task; the code after the await is a microtask, which runs *)
(* before the event loop takes the next event.  cont holds the handler    *)
(* that is suspended at its await; while it is set no other handler       *)
(* starts.  Worker threads and the clock run in parallel to the main      *)
(* thread.                                                                 *)
(*                                                                         *)
(* proc is the state of the server process.  After a shutdown signal the  *)
(* server is closing: it accepts no new connection but goes on serving    *)
(* the open ones until the close callback or the 10 s timer ends the      *)
(* process.                                                                *)
(***************************************************************************)
EXTENDS Integers, Sequences, FiniteSets, TLC

\* ---------------------------------------------------------------- bounds
\* number of POST /process requests accepted during a run
MaxPosts == 2

\* ------------------------------------------------- domains of the inputs
\* the values Date.now() and new Date() take, in milliseconds
Instants == {0, 1}
\* the values Math.random().toString(36).substr(2, 9) takes
Suffixes == {"k3x9q2m1z"}
\* the socket.id values socket.io gives to the connections it accepts
SocketIds == {"sockA", "sockB"}
\* the threadId values Node gives to the worker threads the process creates
ThreadIds == {1, 2}
\* number of worker threads created during a run
MaxWorkers == Cardinality(ThreadIds)

\* messages of the errors a worker thread can raise
ErrMsgs == { <<"boom">> }

VARIABLES
    queue,          \* InMemoryQueue.queue : Map<string, record>
    requestQueue,   \* index.ts requestQueue : Map<string, {worker, socketId}>
    workers,        \* the Worker objects created so far, by creation order
    received,       \* per connected socket.io socket: the events sent to it
    usedSockets,    \* the socket.id values given out so far
    responses,      \* the HTTP responses sent by POST /process, in order
    oplog,          \* the calls made by the dispatcher handlers, in order
    now,            \* the wall clock (Date.now(), new Date())
    cont,           \* the handler suspended at an await, or NoCont
    proc            \* the server process: "running", "closing" or "exited"

\* the state of the queue and notification pipeline
serverVars == <<queue, requestQueue, workers, received, usedSockets,
                responses, oplog, now, cont, proc>>

VARIABLES
    cachedData,     \* mockData.ts cachedData: Person[] | null
    storageData,    \* InMemoryStorage.data : Person[]
    answer          \* the last call made to the data services and its result

\* the state of the mock data and of the storage of people
dataVars == <<cachedData, storageData, answer>>

VARIABLES
    selectedFilters,  \* PersonList searchQuery, selectedHobbies, selectedNationalities
    people,           \* PersonList people: the list on display
    listPage,         \* PersonList page
    hasMore,          \* PersonList hasMore
    totalCount,       \* PersonList totalCount
    loadingRef,       \* PersonList loadingRef.current (and loading)
    effectPending,    \* the effect of the filters is due to run
    fetches,          \* the fetchPeople calls of the component in flight
    timers,           \* the setTimeout(() => loadPeople(next, false), 0) due
    loadFailed,       \* 'Failed to load people:' was logged
    changes           \* how often the user changed the filters

\* the state of the PersonList component
listVars == <<selectedFilters, people, listPage, hasMore, totalCount,
              loadingRef, effectPending, fetches, timers, loadFailed, changes>>

VARIABLES
    streams           \* the requests of GET /api/stream: text, index, interval

\* the state of the stream route
streamVars == <<streams>>

\* the state outside the queue and notification pipeline
otherVars == <<dataVars, listVars, streamVars>>

\* the state outside the mock data and the storage
notDataVars == <<serverVars, listVars, streamVars>>

\* the state outside the PersonList component
notListVars == <<serverVars, dataVars, streamVars>>

\* the state outside the stream route
notStreamVars == <<serverVars, dataVars, listVars>>

vars == <<serverVars, otherVars>>

\* null / undefined, and a value that is present
null == [set |-> FALSE]
Some(v) == [set |-> TRUE, value |-> v]

\* useState(''), useState([]), useState([])
NoFilters == [search |-> << >>, hobbies |-> << >>, nationalities |-> << >>]

\* the requests of the stream route
StreamIds == {1, 2}

\* a request that has not come yet
NoStream ==
    [state |-> "none", text |-> << >>, index |-> 0, interval |-> FALSE,
     written |-> << >>, ended |-> FALSE, writable |-> FALSE,
     closed |-> FALSE]

\* the sockets currently connected
connected == DOMAIN received

\* ------------------------------------------------------------ map helpers
EmptyMap == [x \in {} |-> {}]

\* Map.prototype.set
MapSet(m, k, v) == [x \in (DOMAIN m) \cup {k} |-> IF x = k THEN v ELSE m[x]]

\* a delete that removes nothing
MapDeleteNothing(m, k) == m

\* Map.prototype.delete
MapDelete(m, k) == [x \in (DOMAIN m) \ {k} |-> m[x]]

\* item.field = v on an object whose field may be undefined
SetField(rec, f, v) == [g \in (DOMAIN rec) \cup {f} |-> IF g = f THEN v ELSE rec[g]]

\* ---------------------------------------------------------- InMemoryQueue
enqueue(q, requestId, data) ==
    MapSet(q, requestId, [status |-> "pending", data |-> data])

getStatus(q, requestId) ==
    IF requestId \in DOMAIN q THEN q[requestId].status ELSE "pending"

\* a complete that records nothing
completeNothing(q, requestId, result) == q

\* InMemoryQueue.complete(requestId, result)
complete(q, requestId, result) ==
    IF requestId \in DOMAIN q
    THEN [q EXCEPT ![requestId] =
             SetField(SetField(@, "status", "completed"), "result", result)]
    ELSE q

\* a fail that marks every record of the table
failEvery(q, requestId, error) ==
    [id \in DOMAIN q |->
        SetField(SetField(q[id], "status", "failed"), "error", error)]

fail(q, requestId, error) ==
    IF requestId \in DOMAIN q
    THEN [q EXCEPT ![requestId] =
             SetField(SetField(@, "status", "failed"), "error", error)]
    ELSE q

\* ------------------------------------------------------------ strings
\* `req_${Date.now()}_${Math.random().toString(36).substr(2, 9)}`
RequestId(t, r) == <<"req_", ToString(t), "_", r>>

\* `Processed result for request ${message.id} at ${new Date().toISOString()}`
ProcessedResult(id, t) ==
    <<"Processed result for request ">> \o id \o <<" at ", ToString(t)>>

\* the bare message, without the prefix
ErrorResultBare(message) == message

\* `Error: ${error.message}`
ErrorResult(message) == <<"Error: ">> \o message

\* every id POST /process can make
AllIds == { RequestId(t, r) : t \in Instants, r \in Suffixes }

\* an id that a client made up: no response of POST /process carried it
MadeUpId == <<"req_", "made", "_", "up">>

\* the ids a client sends in a process-request: one that a response of
\* POST /process gave it, or a made-up one
ClientIds(resp) == { resp[i].id : i \in 1..Len(resp) } \cup {MadeUpId}

NoCont == [kind |-> "none"]

\* ------------------------------------------------------------ log entries
LogEntry(op, w, id, status, val) ==
    [op |-> op, w |-> w, id |-> id, status |-> status, val |-> val]

\* io.emit('process-result', ev): socket.io delivers ev to every socket that
\* is connected when emit is called
Deliver(rcv, ev) == [s \in DOMAIN rcv |-> Append(rcv[s], ev)]

\* ------------------------------------------------------------------- Init
Init ==
    /\ queue = EmptyMap
    /\ requestQueue = EmptyMap
    /\ workers = << >>
    /\ received = EmptyMap
    /\ usedSockets = {}
    /\ responses = << >>
    /\ oplog = << >>
    /\ now = 0
    /\ cont = NoCont
    /\ proc = "running"
    /\ cachedData = null
    /\ storageData = << >>
    /\ answer = [op |-> "none"]
    /\ selectedFilters = NoFilters
    /\ people = << >>
    /\ listPage = 1
    /\ hasMore = TRUE
    /\ totalCount = 0
    /\ loadingRef = FALSE
    /\ effectPending = TRUE
    /\ fetches = << >>
    /\ timers = << >>
    /\ loadFailed = FALSE
    /\ changes = 0
    /\ streams = [r \in StreamIds |-> NoStream]

\* the clock advances; the code reads it only at the start of a handler
\* (PostProcess) and in the worker thread, so it is stepped between handlers
Tick(t) ==
    /\ UNCHANGED otherVars
    /\ proc # "exited"
    /\ UNCHANGED proc
    /\ cont = NoCont
    /\ t > now
    /\ now' = t
    /\ UNCHANGED <<queue, requestQueue, workers, received, usedSockets,
                   responses, oplog, cont>>

\* a connection that is handed the events emitted so far
ConnectReplaying(s) ==
    /\ UNCHANGED otherVars
    /\ proc = "running"
    /\ UNCHANGED proc
    /\ cont = NoCont
    /\ s \notin usedSockets
    /\ usedSockets' = usedSockets \cup {s}
    /\ received' = MapSet(received, s,
                          LET IsEmit(e) == e.op = "emit"
                              S == SelectSeq(oplog, IsEmit)
                          IN  [i \in 1..Len(S) |->
                                  [id |-> S[i].id, status |-> S[i].status,
                                   result |-> S[i].val]])
    /\ UNCHANGED <<queue, requestQueue, workers, responses, oplog, now, cont>>

\* io.on('connection'): a new socket, with a fresh socket.id
Connect(s) ==
    /\ UNCHANGED otherVars
    /\ proc = "running"
    /\ UNCHANGED proc
    /\ cont = NoCont
    /\ s \notin usedSockets
    /\ usedSockets' = usedSockets \cup {s}
    /\ received' = MapSet(received, s, << >>)
    /\ UNCHANGED <<queue, requestQueue, workers, responses, oplog, now, cont>>

\* socket.on('disconnect')
Disconnect(s) ==
    /\ UNCHANGED otherVars
    /\ proc # "exited"
    /\ UNCHANGED proc
    /\ cont = NoCont
    /\ s \in connected
    /\ received' = MapDelete(received, s)
    /\ UNCHANGED <<queue, requestQueue, workers, usedSockets, responses, oplog,
                   now, cont>>

\* ---------------------------------------------------------- POST /process
\* router.post('/process') up to `await queue.enqueue(...)`: the id is made
\* from Date.now() and the payload from a later new Date(), a second reading
\* of the clock
PostProcess(r) ==
    /\ UNCHANGED otherVars
    /\ proc # "exited"
    /\ UNCHANGED proc
    /\ cont = NoCont
    /\ Len(responses) < MaxPosts
    /\ \E t \in Instants :
         /\ t >= now
         /\ LET requestId == RequestId(now, r) IN
              /\ queue' = enqueue(queue, requestId, [timestamp |-> t])
              /\ cont' = [kind |-> "post", id |-> requestId]
         /\ now' = t
    /\ UNCHANGED <<requestQueue, workers, received, usedSockets, responses,
                   oplog>>

\* router.post('/process') after the await: res.json({id, status: 'pending'})
PostRespond ==
    /\ UNCHANGED otherVars
    /\ proc # "exited"
    /\ UNCHANGED proc
    /\ cont.kind = "post"
    /\ responses' = Append(responses,
                           [code |-> 200, id |-> cont.id, status |-> "pending"])
    /\ cont' = NoCont
    /\ UNCHANGED <<queue, requestQueue, workers, received, usedSockets, oplog,
                   now>>

\* ------------------------------------------------- process-request handler
\* a handler that takes a process-request only when no worker is in flight
ProcessRequestSerial(s, requestId) ==
    /\ UNCHANGED otherVars
    /\ proc # "exited"
    /\ UNCHANGED proc
    /\ cont = NoCont
    /\ s \in connected
    /\ Len(workers) < MaxWorkers
    /\ \A w \in DOMAIN workers : workers[w].phase \in {"done", "killed"}
    /\ cont' = [kind |-> "dispatch", id |-> requestId, socketId |-> s,
                status |-> getStatus(queue, requestId)]
    /\ UNCHANGED <<queue, requestQueue, workers, received, usedSockets,
                   responses, oplog, now>>

\* socket.on('process-request') up to `await queue.getStatus(requestId)`
ProcessRequest(s, requestId) ==
    /\ UNCHANGED otherVars
    /\ proc # "exited"
    /\ UNCHANGED proc
    /\ cont = NoCont
    /\ s \in connected
    /\ Len(workers) < MaxWorkers
    /\ cont' = [kind |-> "dispatch", id |-> requestId, socketId |-> s,
                status |-> getStatus(queue, requestId)]
    /\ UNCHANGED <<queue, requestQueue, workers, received, usedSockets,
                   responses, oplog, now>>

\* whether the handler goes on to create a worker for a request whose status
\* it read: `if (status === 'pending') { }` has an empty body and nothing
\* returns, so it always does
Proceeds(status) == TRUE

\* the Worker object made by `new Worker(workerPath)` and handed the message
\* {id: requestId, data: {}}; admitted records whether the Queue held a
\* record of requestId when the worker was made (history, not program state)
NewWorker(requestId, admitted) ==
    [id |-> requestId, phase |-> "working", alive |-> TRUE,
     response |-> [id |-> << >>, result |-> << >>], error |-> << >>,
     admitted |-> admitted]

\* socket.on('process-request') after the await: new Worker,
\* requestQueue.set, worker.postMessage, worker.on('message'/'error')
Dispatch ==
    /\ UNCHANGED otherVars
    /\ proc # "exited"
    /\ UNCHANGED proc
    /\ cont.kind = "dispatch"
    /\ IF Proceeds(cont.status)
       THEN LET w == Len(workers) + 1 IN
              /\ workers' = Append(workers,
                                  NewWorker(cont.id, cont.id \in DOMAIN queue))
              /\ requestQueue' = MapSet(requestQueue, cont.id,
                                        [worker |-> w, socketId |-> cont.socketId])
       ELSE UNCHANGED <<workers, requestQueue>>
    /\ cont' = NoCont
    /\ UNCHANGED <<queue, received, usedSockets, responses, oplog, now>>

\* ------------------------------------------------------------ the worker
\* processWorker: parentPort.on('message') answers the message after its
\* timer with {id: message.id, result}
WorkerRespond(w) ==
    /\ UNCHANGED otherVars
    /\ proc # "exited"
    /\ UNCHANGED proc
    /\ w \in DOMAIN workers
    /\ workers[w].phase = "working"
    /\ workers[w].alive
    /\ workers' = [workers EXCEPT
                     ![w].phase = "responded",
                     ![w].response = [id |-> workers[w].id,
                                      result |-> ProcessedResult(workers[w].id, now)]]
    /\ UNCHANGED <<queue, requestQueue, received, usedSockets, responses,
                   oplog, now, cont>>

\* the worker thread raises an uncaught error (it cannot load its script, or
\* it crashes); the thread exits and the Worker object emits 'error'
WorkerError(w, message) ==
    /\ UNCHANGED otherVars
    /\ proc # "exited"
    /\ UNCHANGED proc
    /\ w \in DOMAIN workers
    /\ workers[w].phase = "working"
    /\ workers[w].alive
    /\ workers' = [workers EXCEPT
                     ![w].phase = "errored",
                     ![w].alive = FALSE,
                     ![w].error = message]
    /\ UNCHANGED <<queue, requestQueue, received, usedSockets, responses,
                   oplog, now, cont>>

\* --------------------------------------------------- worker.on('message')
\* up to `await queue.complete(response.id, response.result)`
OnMessage(w) ==
    /\ UNCHANGED otherVars
    /\ proc # "exited"
    /\ UNCHANGED proc
    /\ cont = NoCont
    /\ w \in DOMAIN workers
    /\ workers[w].phase = "responded"
    /\ LET response == workers[w].response IN
         /\ queue' = complete(queue, response.id, response.result)
         /\ oplog' = Append(oplog,
                LogEntry("complete", w, response.id, "", response.result))
    /\ workers' = [workers EXCEPT ![w].phase = "handling"]
    /\ cont' = [kind |-> "message", w |-> w]
    /\ UNCHANGED <<requestQueue, received, usedSockets, responses, now>>

\* the event of io.emit('process-result', ...) in worker.on('message')
CompletedEvent(response) ==
    [id |-> response.id, status |-> "completed", result |-> response.result]

\* the worker terminated and dropped from the table before the broadcast
MessageStepsTerminateFirst(w, response) ==
    << LogEntry("delete", w, response.id, "", << >>),
       LogEntry("terminate", w, response.id, "", << >>),
       LogEntry("emit", w, response.id, "completed", response.result) >>

\* the worker dropped and terminated without a broadcast
MessageStepsNoEmit(w, response) ==
    << LogEntry("delete", w, response.id, "", << >>),
       LogEntry("terminate", w, response.id, "", << >>) >>

\* the calls of worker.on('message') after the await, in program order
MessageSteps(w, response) ==
    << LogEntry("emit", w, response.id, "completed", response.result),
       LogEntry("delete", w, response.id, "", << >>),
       LogEntry("terminate", w, response.id, "", << >>) >>

\* after the await: io.emit, requestQueue.delete(response.id),
\* worker.terminate()
OnMessageFinish ==
    /\ UNCHANGED otherVars
    /\ proc # "exited"
    /\ UNCHANGED proc
    /\ cont.kind = "message"
    /\ LET w == cont.w
           response == workers[w].response IN
         /\ received' = Deliver(received, CompletedEvent(response))
         /\ requestQueue' = MapDelete(requestQueue, response.id)
         /\ workers' = [workers EXCEPT ![w].phase = "done", ![w].alive = FALSE]
         /\ oplog' = oplog \o MessageSteps(w, response)
    /\ cont' = NoCont
    /\ UNCHANGED <<queue, usedSockets, responses, now>>

\* ----------------------------------------------------- worker.on('error')
\* up to `await queue.fail(requestId, error.message)`
OnError(w) ==
    /\ UNCHANGED otherVars
    /\ proc # "exited"
    /\ UNCHANGED proc
    /\ cont = NoCont
    /\ w \in DOMAIN workers
    /\ workers[w].phase = "errored"
    /\ queue' = fail(queue, workers[w].id, workers[w].error)
    /\ oplog' = Append(oplog,
           LogEntry("fail", w, workers[w].id, "", workers[w].error))
    /\ workers' = [workers EXCEPT ![w].phase = "handling"]
    /\ cont' = [kind |-> "error", w |-> w]
    /\ UNCHANGED <<requestQueue, received, usedSockets, responses, now>>

\* the event of io.emit('process-result', ...) in worker.on('error')
ErrorEvent(requestId, message) ==
    [id |-> requestId, status |-> "error", result |-> ErrorResult(message)]

\* the calls of worker.on('error') after the await, in program order
ErrorSteps(w, requestId, message) ==
    << LogEntry("emit", w, requestId, "error", ErrorResult(message)),
       LogEntry("delete", w, requestId, "", << >>) >>

\* after the await: io.emit, requestQueue.delete(requestId)
OnErrorFinish ==
    /\ UNCHANGED otherVars
    /\ proc # "exited"
    /\ UNCHANGED proc
    /\ cont.kind = "error"
    /\ LET w == cont.w
           requestId == workers[w].id
           message == workers[w].error IN
         /\ received' = Deliver(received, ErrorEvent(requestId, message))
         /\ requestQueue' = MapDelete(requestQueue, requestId)
         /\ workers' = [workers EXCEPT ![w].phase = "done"]
         /\ oplog' = oplog \o ErrorSteps(w, requestId, message)
    /\ cont' = NoCont
    /\ UNCHANGED <<queue, usedSockets, responses, now>>

\* --------------------------------------------------------------- shutdown
\* InMemoryQueue.cleanup: this.queue.clear()
cleanup(q) == EmptyMap

\* InMemoryStorage.cleanup(): this.data = []
storageCleanup(d) == << >>

\* requestQueue.forEach(({ worker }) => worker.terminate()): the workers the
\* active-worker table holds are terminated
TerminateAll(ws, rq) ==
    [w \in DOMAIN ws |->
        IF \E id \in DOMAIN rq : rq[id].worker = w
        THEN [ws[w] EXCEPT !.alive = FALSE,
                           !.phase = IF @ = "done" THEN "done" ELSE "killed"]
        ELSE ws[w]]

\* an exit that leaves the threads of the process running
ProcessExitKeepsThreads(ws) == ws

\* process.exit(code): the process ends and every thread of it with it; the
\* events of a worker that were not handled yet never are
ProcessExit(ws) ==
    [w \in DOMAIN ws |->
        [ws[w] EXCEPT !.alive = FALSE,
                      !.phase = IF @ = "done" THEN "done" ELSE "killed"]]

\* process.on('SIGTERM' / 'SIGINT', gracefulShutdown): httpServer.close(cb)
\* stops the server accepting connections and the 10 s timer is set
gracefulShutdown ==
    /\ UNCHANGED otherVars
    /\ proc = "running"
    /\ cont = NoCont
    /\ proc' = "closing"
    /\ UNCHANGED <<queue, requestQueue, workers, received, usedSockets,
                   responses, oplog, now, cont>>

\* the callback of httpServer.close, called once the last connection of the
\* server has ended: worker.terminate() for the table, storage.cleanup(),
\* queue.cleanup(), process.exit(0)
CloseCallback ==
    /\ storageData' = storageCleanup(storageData)
    /\ UNCHANGED <<cachedData, answer, listVars, streamVars>>
    /\ proc = "closing"
    /\ cont = NoCont
    /\ connected = {}
    /\ workers' = ProcessExit(TerminateAll(workers, requestQueue))
    /\ queue' = cleanup(queue)
    /\ proc' = "exited"
    /\ UNCHANGED <<requestQueue, received, usedSockets, responses, oplog, now,
                   cont>>

\* the timer of gracefulShutdown fires: process.exit(1); the connections
\* that are still open are closed with the process
ForcedShutdown ==
    /\ UNCHANGED otherVars
    /\ proc = "closing"
    /\ cont = NoCont
    /\ workers' = ProcessExit(workers)
    /\ received' = EmptyMap
    /\ proc' = "exited"
    /\ UNCHANGED <<queue, requestQueue, usedSockets, responses, oplog, now,
                   cont>>

\* ------------------------------------------------------------------- Next
Next ==
    \/ \E t \in Instants : Tick(t)
    \/ \E s \in SocketIds : Connect(s)
    \/ \E s \in connected : Disconnect(s)
    \/ \E r \in Suffixes : PostProcess(r)
    \/ PostRespond
    \/ \E s \in connected, id \in ClientIds(responses) : ProcessRequest(s, id)
    \/ Dispatch
    \/ \E w \in DOMAIN workers : WorkerRespond(w)
    \/ \E w \in DOMAIN workers, m \in ErrMsgs : WorkerError(w, m)
    \/ \E w \in DOMAIN workers : OnMessage(w)
    \/ OnMessageFinish
    \/ \E w \in DOMAIN workers : OnError(w)
    \/ OnErrorFinish
    \/ gracefulShutdown
    \/ CloseCallback
    \/ ForcedShutdown

Spec == Init /\ [][Next]_vars

TypeOK ==
    /\ DOMAIN queue \subseteq AllIds
    /\ DOMAIN requestQueue \subseteq AllIds \cup {MadeUpId}
    /\ Len(workers) <= MaxWorkers
    /\ connected \subseteq usedSockets
    /\ usedSockets \subseteq SocketIds
    /\ now \in Instants
    /\ proc \in {"running", "closing", "exited"}

\* a step of the server's own work: a microtask, a handler of a worker's
\* event, or a step of a worker thread
Progress ==
    \/ PostRespond
    \/ Dispatch
    \/ OnMessageFinish
    \/ OnErrorFinish
    \/ \E w \in DOMAIN workers :
         \/ WorkerRespond(w)
         \/ \E m \in ErrMsgs : WorkerError(w, m)
         \/ OnMessage(w)
         \/ OnError(w)

\* the scheduling of Node: while a microtask, an event of a worker or a
\* working thread is pending, the event loop and the threads keep running
Fairness == WF_vars(Progress)

FairSpec == Spec /\ Fairness

\* the 10 s timer of gracefulShutdown fires once it is due
TimerFairness == WF_vars(ForcedShutdown)

ShutdownSpec == FairSpec /\ TimerFairness

\* a worker is in flight from its creation to the end of the handler of its
\* outcome
InFlight(w) == workers[w].phase # "done"

\* the calls logged for worker w, in order
WorkerLog(w) == LET Mine(e) == e.w = w IN SelectSeq(oplog, Mine)

Terminal == {"completed", "failed"}

\* ======================================================================
\* Claims
\* ======================================================================

\* C1: terminal states are final: once the Queue status of an id is
\* completed or failed, no step changes it (the record stays, with the same
\* status).
C1_TerminalFinal ==
    [][\A id \in DOMAIN queue :
          queue[id].status \in Terminal
              => (id \in DOMAIN queue' /\ queue'[id].status = queue[id].status)]_vars

\* C2: idempotent terminal transitions: a complete or fail on an id whose
\* record is already completed or failed (a step from a terminal record to a
\* terminal record) leaves the whole record as it was.
C2_IdempotentTerminal ==
    [][\A id \in (DOMAIN queue) \cap (DOMAIN queue') :
          (queue[id].status \in Terminal /\ queue'[id].status \in Terminal)
              => queue'[id] = queue[id]]_vars

\* C3: in every reachable state each record has result and error mutually
\* exclusive, result only when completed, error only when failed, and
\* neither while pending or processing.
C3_ResultErrorExclusive ==
    \A id \in DOMAIN queue :
        /\ ~("result" \in DOMAIN queue[id] /\ "error" \in DOMAIN queue[id])
        /\ "result" \in DOMAIN queue[id] => queue[id].status = "completed"
        /\ "error" \in DOMAIN queue[id] => queue[id].status = "failed"

\* C4: there is never more than one live worker thread for the id of a task
\* (an id that had a record in the Queue when the process-request came).
C4_OneWorkerPerId ==
    \A w1, w2 \in DOMAIN workers :
        (w1 # w2 /\ workers[w1].alive /\ workers[w2].alive
            /\ workers[w1].admitted /\ workers[w2].admitted)
            => workers[w1].id # workers[w2].id

\* C5: a process-request creates a worker only if its id is in the Queue
\* with status pending.
C5_DispatchOnlyPending ==
    [][Len(workers') > Len(workers)
          => (cont.id \in DOMAIN queue /\ queue[cont.id].status = "pending")]_vars

\* C6: once a process-result event with status completed was emitted for an
\* id, getStatus(id) is completed; once one with status error was emitted,
\* getStatus(id) is failed.
C6_EventsAgreeWithQueue ==
    \A i \in 1..Len(oplog) :
        oplog[i].op = "emit" =>
            /\ oplog[i].status = "completed"
                   => getStatus(queue, oplog[i].id) = "completed"
            /\ oplog[i].status = "error"
                   => getStatus(queue, oplog[i].id) = "failed"

\* the calls logged for a worker that answered and whose handler is at the
\* given phase, and the state the handler has made by then
C7_Order ==
    \A w \in DOMAIN workers :
        LET r == workers[w].response
            L == WorkerLog(w)
        IN  workers[w].error = << >> =>
              /\ workers[w].phase \in {"working", "responded"} => L = << >>
              /\ workers[w].phase = "handling" =>
                    /\ L = << LogEntry("complete", w, r.id, "", r.result) >>
                    /\ workers[w].alive
                    /\ r.id \in DOMAIN queue =>
                          /\ queue[r.id].status = "completed"
                          /\ queue[r.id].result = r.result
              /\ workers[w].phase = "done" =>
                    /\ L = << LogEntry("complete", w, r.id, "", r.result),
                              LogEntry("emit", w, r.id, "completed", r.result),
                              LogEntry("delete", w, r.id, "", << >>),
                              LogEntry("terminate", w, r.id, "", << >>) >>
                    /\ ~workers[w].alive

\* the step that ends the handler of a worker's answer
C7_Step ==
    [][\A w \in DOMAIN workers :
          (workers[w].phase = "handling" /\ workers[w].error = << >>
              /\ workers'[w].phase = "done")
          => LET r == workers[w].response IN
               /\ \A s \in connected :
                     received'[s] = Append(received[s],
                         [id |-> r.id, status |-> "completed", result |-> r.result])
               /\ r.id \notin DOMAIN requestQueue'
               /\ ~workers'[w].alive
               /\ queue' = queue]_vars

\* C7: on a worker's success message the dispatcher calls
\* Queue.complete(id, result), then broadcasts {id, completed, result} with
\* the same result, then removes id from the active-worker table and
\* terminates the worker; the broadcast starts only after complete has
\* finished.
C7_SuccessOrder == []C7_Order /\ C7_Step

\* C7 witness: a worker answered, its handler ran to the end and a connected
\* socket got the event.
C7_Witness ==
    \E w \in DOMAIN workers :
        /\ workers[w].phase = "done"
        /\ workers[w].error = << >>
        /\ workers[w].id \in DOMAIN queue
        /\ \E s \in connected :
              \E i \in 1..Len(received[s]) : received[s][i].id = workers[w].id

\* the calls logged for a worker that raised an error and whose handler is
\* at the given phase, with the result string the event must carry
C8_Order(resultOf(_)) ==
    \A w \in DOMAIN workers :
        LET id == workers[w].id
            m == workers[w].error
            L == WorkerLog(w)
        IN  m # << >> =>
              /\ workers[w].phase = "errored" => L = << >>
              /\ workers[w].phase = "handling" =>
                    /\ L = << LogEntry("fail", w, id, "", m) >>
                    /\ id \in DOMAIN queue =>
                          /\ queue[id].status = "failed"
                          /\ queue[id].error = m
              /\ workers[w].phase = "done" =>
                    L = << LogEntry("fail", w, id, "", m),
                           LogEntry("emit", w, id, "error", resultOf(m)),
                           LogEntry("delete", w, id, "", << >>) >>

\* the step that ends the handler of a worker's error: the event goes to
\* every connected socket, id leaves the active-worker table, and the record
\* of id is left failed with the error message
C8_Step(resultOf(_)) ==
    \A w \in DOMAIN workers :
          (workers[w].phase = "handling" /\ workers[w].error # << >>
              /\ workers'[w].phase = "done")
          => LET id == workers[w].id
                 m == workers[w].error
             IN
               /\ \A s \in connected :
                     received'[s] = Append(received[s],
                         [id |-> id, status |-> "error", result |-> resultOf(m)])
               /\ id \notin DOMAIN requestQueue'
               /\ id \in DOMAIN queue' =>
                     /\ queue'[id].status = "failed"
                     /\ queue'[id].error = m

\* the error message itself
C8_SameMessage(m) == m

\* "Error: " followed by the error message
C8_Prefixed(m) == <<"Error: ">> \o m

\* C8 as stated: on a worker error the dispatcher calls Queue.fail(id,
\* errorMessage), then broadcasts a process-result event with status error
\* whose result equals the errorMessage recorded in the error field, then
\* removes id from the active-worker table; the task ends failed with
\* error = errorMessage.
C8_ResultIsErrorMessage ==
    []C8_Order(C8_SameMessage) /\ [][C8_Step(C8_SameMessage)]_vars

\* C8 amended: as C8, but the result of the event is the string "Error: "
\* followed by the errorMessage recorded in the error field.
C8_ResultIsPrefixedMessage ==
    []C8_Order(C8_Prefixed) /\ [][C8_Step(C8_Prefixed)]_vars

\* C8 witness: a worker of an admitted task raised an error, its handler ran
\* to the end and a connected socket got the error event.
C8_Witness ==
    \E w \in DOMAIN workers :
        /\ workers[w].phase = "done"
        /\ workers[w].error # << >>
        /\ workers[w].id \in DOMAIN queue
        /\ queue[workers[w].id].status = "failed"
        /\ \E s \in connected :
              \E i \in 1..Len(received[s]) :
                  /\ received[s][i].id = workers[w].id
                  /\ received[s][i].status = "error"

\* the number of completed events for id that socket s got
CompletedCount(s, id) ==
    Cardinality({i \in 1..Len(received[s]) :
                    received[s][i].id = id /\ received[s][i].status = "completed"})

\* C9: when a task transitions to completed every connected subscriber gets
\* the completed event of that task (never zero), and no subscriber ever
\* holds two or more completed events of the same task (an id that had a
\* record in the Queue whenever a process-request came for it).
C9_ExactlyOnce ==
    /\ [](\A s \in connected : \A id \in DOMAIN queue :
            (\A w \in DOMAIN workers : workers[w].id = id => workers[w].admitted)
                => CompletedCount(s, id) <= 1)
    /\ [][\A w \in DOMAIN workers :
            (workers[w].phase = "handling" /\ workers[w].error = << >>
                /\ workers'[w].phase = "done")
            => \A s \in connected :
                  CompletedCount(s, workers[w].id)' = CompletedCount(s, workers[w].id) + 1]_vars

\* a worker is released when its thread is gone and either the handler of
\* its outcome has ended and the active-worker table has no entry that holds
\* it, or the process has ended
Released(w) ==
    /\ ~workers[w].alive
    /\ \/ /\ workers[w].phase = "done"
          /\ \A id \in DOMAIN requestQueue : requestQueue[id].worker # w
       \/ proc = "exited"

\* no task is in flight: no worker is between its creation and the end of
\* the handler of its outcome
NoneInFlight == \A w \in DOMAIN workers : ~InFlight(w)

\* C10: every worker created by a process-request is eventually released,
\* whether it answers or raises an error (again and again every worker made
\* so far is released, and a released worker stays released), and whenever
\* no task is in flight the active-worker table is empty and no worker
\* thread is alive.
C10_WorkersReleased ==
    /\ []<>(\A w \in DOMAIN workers : Released(w))
    /\ [][\A w \in DOMAIN workers : Released(w) => Released(w)']_vars
    /\ [](NoneInFlight =>
             (requestQueue = EmptyMap /\ \A w \in DOMAIN workers : ~workers[w].alive))

\* C10 witness: one worker answered and another raised an error, both
\* handlers have ended and nothing is left in the table.
C10_Witness ==
    /\ NoneInFlight
    /\ requestQueue = EmptyMap
    /\ \E w1, w2 \in DOMAIN workers :
          /\ workers[w1].error = << >>
          /\ workers[w2].error # << >>
          /\ Released(w1)
          /\ Released(w2)

EnqueueStep == cont = NoCont /\ cont'.kind = "post"

\* C12: enqueue(id, payload) with an id already in the Queue table fails with
\* DuplicateIdError and leaves the record of id unchanged: the call changes
\* no field of the record, and the admission that made it is not answered
\* as a success.
C12_DuplicateEnqueueRejected ==
    /\ [][EnqueueStep =>
            (cont'.id \in DOMAIN queue => queue'[cont'.id] = queue[cont'.id])]_vars
    /\ [][(cont.kind = "post" /\ Len(responses') > Len(responses)) =>
            \A i \in 1..Len(responses) :
                responses[i].id = cont.id
                    => responses'[Len(responses')].code # 200]_vars

\* the status values of a record
Statuses == {"pending", "processing", "completed", "failed"}

\* the step of the process-request handler that calls
\* queue.getStatus(requestId) and takes its answer
GetStatusStep == cont = NoCont /\ cont'.kind = "dispatch"

\* C13: getStatus(id) returns the current status of a known id, and for an
\* id that is not in the Queue table it reports no status (it fails with
\* NotFoundError).
C13_UnknownIdNoStatus ==
    [][GetStatusStep =>
          IF cont'.id \in DOMAIN queue
          THEN cont'.status = queue[cont'.id].status
          ELSE cont'.status \notin Statuses]_vars

\* the step of a worker event handler that calls queue.complete or
\* queue.fail and goes on as after a call that succeeded
TerminalCallStep == cont = NoCont /\ cont'.kind \in {"message", "error"}

\* C14: complete(id, result) or fail(id, error) on an id that is not in the
\* Queue table reports an error to its caller (the handler does not go on
\* as after a call that succeeded) and creates no record for the id.
C14_UnknownIdReported ==
    [][TerminalCallStep =>
          /\ workers[cont'.w].id \in DOMAIN queue
          /\ DOMAIN queue' = DOMAIN queue]_vars

\* C15: every successful POST /process has inserted a record of its id with
\* status pending before it responds, responds 200 with {id, status:
\* "pending"}, and right after the response getStatus(id) is pending and no
\* worker has been created for the id.
C15_Admission ==
    [][Len(responses') > Len(responses) =>
          LET r == responses'[Len(responses')] IN
            /\ r = [code |-> 200, id |-> r.id, status |-> "pending"]
            /\ r.id \in DOMAIN queue
            /\ queue[r.id].status = "pending"
            /\ r.id \in DOMAIN queue'
            /\ getStatus(queue', r.id) = "pending"
            /\ \A w \in DOMAIN workers' : workers'[w].id # r.id]_vars

\* C16: the ids assigned by N admissions are pairwise distinct, so the Queue
\* table holds N records (while the process runs and no admission is under
\* way).
C16_UniqueIds ==
    /\ \A i, j \in 1..Len(responses) :
          i # j => responses[i].id # responses[j].id
    /\ (proc # "exited" /\ cont = NoCont)
          => Cardinality(DOMAIN queue) = Len(responses)

\* the Queue has been told that the worker of id raised an error
HasFailed(id) ==
    \E w \in DOMAIN workers :
        /\ workers[w].id = id
        /\ workers[w].error # << >>
        /\ workers[w].phase \in {"handling", "done"}

\* C17: no automatic retry: once the worker of a task has errored and the
\* task is failed, no step creates another worker for its id and no step
\* changes its status: the task stays failed for as long as it has a record.
C17_NoRetry ==
    [][\A id \in DOMAIN queue :
          (HasFailed(id) /\ queue[id].status = "failed") =>
              /\ \A w \in DOMAIN workers' :
                    w \notin DOMAIN workers => workers'[w].id # id
              /\ id \in DOMAIN queue' => queue'[id].status = "failed"]_vars

\* a step of the handling of the error that worker w raised
ErrorHandlingStep(w) ==
    /\ workers[w].error # << >>
    /\ \/ workers[w].phase = "errored" /\ workers'[w].phase = "handling"
       \/ workers[w].phase = "handling" /\ workers'[w].phase = "done"

\* C18: isolation: the handling of the error of the worker of task A changes
\* only the record of A and the active-worker entry of A: for every other
\* id B the record of B (status, result, error), the active-worker entry of B
\* and the workers of B are left as they were, so B's worker goes on to its
\* own outcome.
C18_Isolation ==
    [][\A w \in DOMAIN workers :
          ErrorHandlingStep(w) =>
              LET A == workers[w].id IN
                /\ DOMAIN queue' = DOMAIN queue
                /\ \A B \in (DOMAIN queue) \ {A} : queue'[B] = queue[B]
                /\ \A B \in (DOMAIN requestQueue) \ {A} :
                      /\ B \in DOMAIN requestQueue'
                      /\ requestQueue'[B] = requestQueue[B]
                /\ \A v \in DOMAIN workers :
                      workers[v].id # A => workers'[v] = workers[v]]_vars

\* C18 witness: the worker of task A raised an error and was handled while
\* the worker of task B was at work, and B has completed since with its own
\* result while A is failed.
C18_Witness ==
    \E w, v \in DOMAIN workers :
        /\ workers[w].id # workers[v].id
        /\ workers[w].id \in DOMAIN queue
        /\ workers[v].id \in DOMAIN queue
        /\ workers[w].error # << >>
        /\ workers[w].phase = "done"
        /\ workers[v].error = << >>
        /\ workers[v].phase = "done"
        /\ queue[workers[w].id].status = "failed"
        /\ queue[workers[v].id].status = "completed"
        /\ queue[workers[v].id].result = workers[v].response.result
        /\ \E i, j \in 1..Len(oplog) :
              /\ i < j
              /\ oplog[i].op = "fail" /\ oplog[i].w = w
              /\ oplog[j].op = "complete" /\ oplog[j].w = v

\* the events that the calls logged after the first n entries broadcast
EmittedSince(log, n) ==
    LET IsEmit(e) == e.op = "emit"
        S == SelectSeq(SubSeq(log, n + 1, Len(log)), IsEmit)
    IN  [i \in 1..Len(S) |->
            [id |-> S[i].id, status |-> S[i].status, result |-> S[i].val]]

FirstTerminal(id) ==
    LET I == {i \in 1..Len(oplog) :
                oplog[i].id = id /\ oplog[i].op \in {"complete", "fail"}}
    IN  IF I = {} THEN 0 ELSE CHOOSE i \in I : \A j \in I : i <= j

FirstEmit(id) ==
    LET I == {i \in 1..Len(oplog) : oplog[i].id = id /\ oplog[i].op = "emit"}
    IN  IF I = {} THEN 0 ELSE CHOOSE i \in I : \A j \in I : i <= j

\* C20: broadcast order reflects completion order: for tasks A and B, if the
\* record of A reached its terminal status before the record of B did, then
\* once the event of B is emitted the event of A has been emitted, and
\* before it.
C20_BroadcastOrder ==
    \A A, B \in AllIds :
        (A # B /\ FirstTerminal(A) > 0 /\ FirstTerminal(B) > 0
            /\ FirstTerminal(A) < FirstTerminal(B) /\ FirstEmit(B) > 0)
        => (FirstEmit(A) > 0 /\ FirstEmit(A) < FirstEmit(B))

\* C20 witness: two tasks were submitted in one order, their records became
\* terminal in the other order, and both events were emitted.
C20_Witness ==
    \E A, B \in AllIds :
        /\ A # B
        /\ Len(responses) = 2
        /\ responses[1].id = B
        /\ responses[2].id = A
        /\ 0 < FirstTerminal(A)
        /\ FirstTerminal(A) < FirstTerminal(B)
        /\ 0 < FirstEmit(A)
        /\ FirstEmit(A) < FirstEmit(B)

\* the outcomes that the handlers have recorded for id: the calls of
\* queue.complete and queue.fail made for it
OutcomesOf(id) ==
    {oplog[i].op : i \in {j \in 1..Len(oplog) :
                            oplog[j].id = id /\ oplog[j].op \in {"complete", "fail"}}}

\* C21: within a task the transitions are strictly ordered: a worker is
\* created for a task only while the task is pending, the status of an id
\* becomes completed or failed only after a process-request created a worker
\* for the id, and exactly one of the outcomes completed / failed is ever
\* recorded for the id.
C21_TaskOrder ==
    /\ [][\A w \in DOMAIN workers' :
            (w \notin DOMAIN workers /\ workers'[w].id \in DOMAIN queue)
                => queue[workers'[w].id].status = "pending"]_vars
    /\ [](\A id \in DOMAIN queue :
            queue[id].status \in Terminal
                => \E w \in DOMAIN workers : workers[w].id = id)
    /\ [](\A id \in AllIds : Cardinality(OutcomesOf(id)) <= 1)

\* the continuation of the handler that is suspended at its await
Microtask == PostRespond \/ Dispatch \/ OnMessageFinish \/ OnErrorFinish

\* C22: admission never waits on task execution: in every state of the
\* running server, whatever the workers are doing, the main thread can take
\* its next step without a step of any worker: a suspended handler can go
\* on, and when none is suspended a POST /process can be accepted (and is
\* then answered) and a process-request of a connected socket can be taken
\* (and is then dispatched).
C22_AdmissionNeverWaits ==
    proc # "exited" =>
        /\ cont # NoCont => ENABLED Microtask
        /\ cont.kind = "post" => ENABLED PostRespond
        /\ cont.kind = "dispatch" => ENABLED Dispatch
        /\ (cont = NoCont /\ Len(responses) < MaxPosts)
              => \A r \in Suffixes : ENABLED PostProcess(r)
        /\ (cont = NoCont /\ Len(workers) < MaxWorkers)
              => \A s \in connected : \A id \in ClientIds(responses) :
                    ENABLED ProcessRequest(s, id)

\* C22 witness: a worker is at its task, unanswered, and meanwhile another
\* admission was accepted and answered and a second process-request was
\* dispatched.
C22_Witness ==
    /\ Len(responses) = 2
    /\ \E w, v \in DOMAIN workers :
          /\ w < v
          /\ workers[w].phase = "working"
          /\ workers[v].phase = "working"
          /\ workers[w].id = responses[1].id
          /\ workers[v].id = responses[2].id
          /\ responses[1].id # responses[2].id

\* C23: no task is lost and no record is evicted: a record of the Queue
\* table stays in the table with its payload in every step but cleanup()
\* (the close callback of the shutdown), and when the first worker of an
\* admitted id is created the record is there with status pending.
C23_NoRecordLost ==
    /\ [][CloseCallback \/
            \A id \in DOMAIN queue :
                /\ id \in DOMAIN queue'
                /\ queue'[id].data = queue[id].data]_vars
    /\ [][\A w \in DOMAIN workers' :
            (/\ w \notin DOMAIN workers
             /\ \E i \in 1..Len(responses) : responses[i].id = workers'[w].id
             /\ \A v \in DOMAIN workers : workers[v].id # workers'[w].id)
            => /\ workers'[w].id \in DOMAIN queue
               /\ queue[workers'[w].id].status = "pending"]_vars

----------------------------------------------------------------------------
\* The mock data and the storage of people (mockData.ts, InMemoryStorage.ts,
\* GET /api/people)

MaxCount == 3

\* the people faker can produce: names differ in case, and one person has no
\* hobby
PersonAb ==
    [first_name |-> <<"A", "b">>, last_name |-> <<"B", "a">>,
     nationality |-> "French", hobbies |-> <<"Chess">>]

PersonBa ==
    [first_name |-> <<"B", "a">>, last_name |-> <<"A", "a">>,
     nationality |-> "German", hobbies |-> <<"Chess", "Golf">>]

PersonBb ==
    [first_name |-> <<"b", "B">>, last_name |-> <<"b">>,
     nationality |-> "French", hobbies |-> << >>]

People == { PersonAb, PersonBa, PersonBb }

\* the counts generateMockData is called with
Counts == 0..MaxCount

\* the count InMemoryStorage.initialize() asks for (1000 in the source)
InitialCount == 3

\* the filters of a request: a text to search, lists of hobbies and of
\* nationalities
Searches == { << >>, <<"a">>, <<"A", "B">> }
HobbyLists == { << >>, <<"Golf">>, <<"Golf", "Chess">> }
NationalityLists == { << >>, <<"French">>, <<"German", "French">> }

\* the pages and page sizes of a request: pages up to the last one of the
\* longest list and beyond the last one of the others
Pages == 1..MaxCount
PageSizes == {1, 2}

\* const { page = 1, pageSize = 20, ... search = '' } = req.query
DefaultPage == 1
DefaultPageSize == 20
DefaultSearch == << >>

Optional(S) == {null} \cup { Some(v) : v \in S }

\* a list of count people, each one drawn by faker
PeopleLists(count) == [1..count -> People]

\* String.prototype.toLowerCase, character by character
LowerChar(c) ==
    CASE c = "A" -> "a"
      [] c = "B" -> "b"
      [] OTHER -> c

\* String.prototype.toLowerCase
toLowerCase(str) == [i \in 1..Len(str) |-> LowerChar(str[i])]

\* String.prototype.includes: sub occurs in str
includes(str, sub) ==
    \E i \in 0..(Len(str) - Len(sub)) : SubSeq(str, i + 1, i + Len(sub)) = sub

\* Array.prototype.includes
arrayIncludes(arr, x) == \E i \in 1..Len(arr) : arr[i] = x

\* Array.prototype.slice(start, end) that takes the element at end too
sliceInclusive(arr, start, end) ==
    SubSeq(arr, start + 1, IF end + 1 < Len(arr) THEN end + 1 ELSE Len(arr))

\* Array.prototype.slice(start, end) for 0 <= start <= end: the elements at
\* the 0-based positions start .. end-1 that exist
slice(arr, start, end) ==
    SubSeq(arr, start + 1, IF end < Len(arr) THEN end ELSE Len(arr))

\* Math.ceil(a / b) for a >= 0, b >= 1
ceil(a, b) == (a + b - 1) \div b

\* the search filter of getPeople
searchFilter(list, params) ==
    IF params.search.set /\ params.search.value # << >>
    THEN LET searchLower == toLowerCase(params.search.value)
             keep(person) ==
                 \/ includes(toLowerCase(person.first_name), searchLower)
                 \/ includes(toLowerCase(person.last_name), searchLower)
         IN  SelectSeq(list, keep)
    ELSE list

\* a hobby filter that asks for every requested hobby
hobbyFilterEvery(list, params) ==
    IF params.hobbies.set /\ Len(params.hobbies.value) > 0
    THEN LET keep(person) ==
                 \A i \in 1..Len(params.hobbies.value) :
                     arrayIncludes(person.hobbies, params.hobbies.value[i])
         IN  SelectSeq(list, keep)
    ELSE list

\* the hobby filter of getPeople
hobbyFilter(list, params) ==
    IF params.hobbies.set /\ Len(params.hobbies.value) > 0
    THEN LET keep(person) ==
                 \E i \in 1..Len(params.hobbies.value) :
                     arrayIncludes(person.hobbies, params.hobbies.value[i])
         IN  SelectSeq(list, keep)
    ELSE list

\* the nationality filter of getPeople
nationalityFilter(list, params) ==
    IF params.nationalities.set /\ Len(params.nationalities.value) > 0
    THEN LET keep(person) ==
                 arrayIncludes(params.nationalities.value, person.nationality)
         IN  SelectSeq(list, keep)
    ELSE list

\* InMemoryStorage.getPeople(params) on the stored list
getPeople(list, params) ==
    LET filteredData ==
            nationalityFilter(hobbyFilter(searchFilter(list, params), params),
                              params)
        startIndex == (params.page - 1) * params.pageSize
        endIndex == startIndex + params.pageSize
        paginatedData == slice(filteredData, startIndex, endIndex)
        totalPages == ceil(Len(filteredData), params.pageSize)
    IN  [data |-> paginatedData,
         total |-> Len(filteredData),
         page |-> params.page,
         pageSize |-> params.pageSize,
         totalPages |-> totalPages]

\* the parameters getPeople is called with
Params ==
    [page : Pages,
     pageSize : PageSizes \cup {DefaultPageSize},
     search : Optional(Searches),
     hobbies : Optional(HobbyLists),
     nationalities : Optional(NationalityLists)]

\* the query of GET /api/people; a hobby or a nationality given once arrives
\* as a string, given several times as an array
Queries ==
    [page : Optional({2}),
     pageSize : Optional({1}),
     search : Optional(Searches \ {<< >>}),
     hobbies : Optional(HobbyLists \ {<< >>}),
     nationalities : Optional(NationalityLists \ {<< >>})]

\* the parameters router.get('/people') hands to storage.getPeople
routeParams(query) ==
    LET page == IF query.page.set THEN query.page.value ELSE DefaultPage
        pageSize == IF query.pageSize.set THEN query.pageSize.value
                    ELSE DefaultPageSize
        hobbies == IF query.hobbies.set THEN query.hobbies.value ELSE << >>
        nationalities == IF query.nationalities.set
                         THEN query.nationalities.value ELSE << >>
        search == IF query.search.set THEN query.search.value
                  ELSE DefaultSearch
    IN  [page |-> page,
         pageSize |-> pageSize,
         hobbies |-> IF Len(hobbies) > 0 THEN Some(hobbies) ELSE null,
         nationalities |-> IF Len(nationalities) > 0 THEN Some(nationalities)
                           ELSE null,
         search |-> IF search # << >> THEN Some(search) ELSE null]

\* generateMockData(count) returns result: the cached list when there is
\* one, else a new list of count people, which it caches
generateMockData(count, result) ==
    IF cachedData.set
    THEN /\ result = cachedData.value
         /\ UNCHANGED cachedData
    ELSE /\ result \in PeopleLists(count)
         /\ cachedData' = Some(result)

\* no call is being answered: the caller took the last result
Idle == answer.op = "none"

\* a call of generateMockData(count)
GenerateMockData(count) ==
    /\ Idle
    /\ \E result \in (IF cachedData.set THEN {cachedData.value}
                      ELSE PeopleLists(count)) :
         /\ generateMockData(count, result)
         /\ answer' = [op |-> "generateMockData", count |-> count,
                       result |-> result]
    /\ UNCHANGED storageData
    /\ UNCHANGED notDataVars

\* InMemoryStorage.initialize(): this.data = generateMockData(1000)
initialize ==
    /\ Idle
    /\ \E result \in (IF cachedData.set THEN {cachedData.value}
                      ELSE PeopleLists(InitialCount)) :
         /\ generateMockData(InitialCount, result)
         /\ storageData' = result
    /\ answer' = [op |-> "initialize"]
    /\ UNCHANGED notDataVars

\* a call of InMemoryStorage.getPeople(params)
GetPeople(params) ==
    /\ Idle
    /\ answer' = [op |-> "getPeople", params |-> params,
                  result |-> getPeople(storageData, params)]
    /\ UNCHANGED <<cachedData, storageData>>
    /\ UNCHANGED notDataVars

\* GET /api/people with a query: res.json(result)
PeopleRoute(query) ==
    /\ Idle
    /\ answer' = [op |-> "GET /api/people", query |-> query,
                  params |-> routeParams(query),
                  result |-> getPeople(storageData, routeParams(query))]
    /\ UNCHANGED <<cachedData, storageData>>
    /\ UNCHANGED notDataVars

\* a call of InMemoryStorage.cleanup()
StorageCleanup ==
    /\ Idle
    /\ storageData' = storageCleanup(storageData)
    /\ answer' = [op |-> "cleanup"]
    /\ UNCHANGED cachedData
    /\ UNCHANGED notDataVars

\* the call returns: its caller has the result and can make the next call
Return ==
    /\ ~Idle
    /\ answer' = [op |-> "none"]
    /\ UNCHANGED <<cachedData, storageData>>
    /\ UNCHANGED notDataVars

StorageNext ==
    \/ \E count \in Counts : GenerateMockData(count)
    \/ initialize
    \/ \E params \in Params : GetPeople(params)
    \/ \E query \in Queries : PeopleRoute(query)
    \/ StorageCleanup
    \/ Return

StorageSpec == Init /\ [][StorageNext]_vars

\* the answers of the calls that return people
Answered == answer.op \in {"getPeople", "GET /api/people"}

\* C24: generateMockData(count) returns a list of exactly count people,
\* whatever calls of generateMockData came before
C24_CountPeople ==
    answer.op = "generateMockData" => Len(answer.result) = answer.count

\* two texts are the same but for the case of their letters
SameIgnoringCase(a, b) ==
    /\ Len(a) = Len(b)
    /\ \A i \in 1..Len(a) : LowerChar(a[i]) = LowerChar(b[i])

\* text occurs in name, the case of the letters ignored
OccursIgnoringCase(name, text) ==
    \E i \in 1..(Len(name) + 1) : \E j \in (i - 1)..Len(name) :
        SameIgnoringCase(SubSeq(name, i, j), text)

\* the person satisfies every filter the parameters supply; a filter that is
\* absent or empty is not supplied
Satisfies(person, params) ==
    /\ (params.search.set /\ params.search.value # << >>)
          => \/ OccursIgnoringCase(person.first_name, params.search.value)
             \/ OccursIgnoringCase(person.last_name, params.search.value)
    /\ (params.hobbies.set /\ params.hobbies.value # << >>)
          => \E i \in 1..Len(params.hobbies.value) :
               \E j \in 1..Len(person.hobbies) :
                   person.hobbies[j] = params.hobbies.value[i]
    /\ (params.nationalities.set /\ params.nationalities.value # << >>)
          => \E i \in 1..Len(params.nationalities.value) :
                 params.nationalities.value[i] = person.nationality

\* the stored people that satisfy the filters, in storage order
Matching(list, params) ==
    LET keep(person) == Satisfies(person, params)
    IN  SelectSeq(list, keep)

\* the data of the pages first..last of a request, one after the other
RECURSIVE PagesData(_, _, _, _)
PagesData(list, params, first, last) ==
    IF first > last THEN << >>
    ELSE getPeople(list, [params EXCEPT !.page = first]).data
             \o PagesData(list, params, first + 1, last)

\* C25: for page >= 1 and pageSize >= 1 the response echoes page and
\* pageSize, total is the number of matching people, totalPages is
\* ceil(total / pageSize), data is the matching people at the positions
\* (page-1)*pageSize .. page*pageSize-1 in storage order, and the pages
\* 1..totalPages are disjoint and together the whole filtered list
C25_Pagination ==
    Answered =>
        LET r == answer.result
            p == answer.params
            m == Matching(storageData, p)
            first == (p.page - 1) * p.pageSize
            held == { k \in first..(first + p.pageSize - 1) : k < Len(m) }
        IN  /\ r.page = p.page
            /\ r.pageSize = p.pageSize
            /\ r.total = Len(m)
            /\ r.totalPages * p.pageSize >= r.total
            /\ r.totalPages >= 0
            /\ r.totalPages > 0 => (r.totalPages - 1) * p.pageSize < r.total
            /\ Len(r.data) = Cardinality(held)
            /\ \A i \in 1..Len(r.data) : r.data[i] = m[first + i]
            /\ PagesData(storageData, p, 1, r.totalPages) = m

\* C25: the second and last page of three matching people, two a page
C25_Witness ==
    /\ Answered
    /\ answer.params.search.set
    /\ answer.params.search.value # << >>
    /\ answer.params.page = 2
    /\ answer.params.pageSize = 2
    /\ answer.result.total = 3
    /\ answer.result.totalPages = 2
    /\ Len(answer.result.data) = 1

\* C26: a person is counted in total and appears in data if and only if it
\* satisfies every supplied filter; an absent or empty filter excludes nobody
C26_Filtering ==
    Answered =>
        LET r == answer.result
            p == answer.params
            sat == { i \in 1..Len(storageData) : Satisfies(storageData[i], p) }
            all == PagesData(storageData, p, 1, r.totalPages)
        IN  /\ r.total = Cardinality(sat)
            /\ \A i \in 1..Len(r.data) : Satisfies(r.data[i], p)
            /\ \A i \in 1..Len(storageData) :
                   (i \in sat) <=> \E k \in 1..Len(all) : all[k] = storageData[i]
            /\ ( /\ p.search.set => p.search.value = << >>
                 /\ p.hobbies.set => p.hobbies.value = << >>
                 /\ p.nationalities.set => p.nationalities.value = << >> )
                   => r.total = Len(storageData)

\* C26: the three filters are supplied together and keep some of the stored
\* people out
C26_Witness ==
    /\ Answered
    /\ answer.params.search.set /\ answer.params.search.value # << >>
    /\ answer.params.hobbies.set /\ answer.params.hobbies.value # << >>
    /\ answer.params.nationalities.set
    /\ answer.params.nationalities.value # << >>
    /\ answer.result.total > 0
    /\ answer.result.total < Len(storageData)

\* worker w is the worker the active-worker table holds under its task id
Tracked(w) ==
    /\ workers[w].id \in DOMAIN requestQueue
    /\ requestQueue[workers[w].id].worker = w

\* C27: every worker thread that was created and has not ended is the worker
\* the active-worker table holds under its task id, so that the loop of the
\* shutdown reaches it
C27_LiveWorkersTracked ==
    \A w \in DOMAIN workers : workers[w].alive => Tracked(w)

\* the handler of the outcome of worker w has ended
Handled(w) == workers[w].phase = "done"

\* the Queue holds a terminal status for the task of worker w
OutcomeRecorded(w) ==
    /\ w \in DOMAIN workers
    /\ workers[w].id \in DOMAIN queue
    /\ queue[workers[w].id].status \in Terminal

\* the handler of the outcome of worker w has broadcast a process-result
\* event for the id of its task
OutcomeBroadcast(w) ==
    /\ w \in DOMAIN workers
    /\ \E i \in 1..Len(oplog) :
          /\ oplog[i].op = "emit"
          /\ oplog[i].w = w
          /\ oplog[i].id = workers[w].id

\* C28: a task of the Queue that got a process-request, whose worker answers
\* or raises an error, eventually has the status completed or failed in the
\* Queue and eventually a process-result event for its id is broadcast,
\* unless the process exits first: the handler of the outcome of every such
\* worker comes to its end (a handler that ended stays ended, so this is
\* that again and again every worker made so far has been handled), and when
\* it ends the Queue holds a terminal status for the task and the event has
\* been broadcast
C28_DispatchedTaskProgress ==
    /\ []<>(\A w \in DOMAIN workers :
               workers[w].admitted => (Handled(w) \/ proc = "exited"))
    /\ [][\A w \in DOMAIN workers :
             (workers[w].admitted /\ ~Handled(w) /\ Handled(w)')
                 => (OutcomeRecorded(w)' /\ OutcomeBroadcast(w)')]_vars

\* C28 witness: the worker of a task of the Queue has answered or raised an
\* error, the Queue holds a terminal status for the task and the event was
\* broadcast to a connected socket, while the process is running
C28_Witness ==
    /\ proc = "running"
    /\ \E w \in DOMAIN workers :
          /\ workers[w].admitted
          /\ Handled(w)
          /\ OutcomeRecorded(w)
          /\ OutcomeBroadcast(w)
          /\ \E s \in connected : \E i \in 1..Len(received[s]) :
                received[s][i].id = workers[w].id

----------------------------------------------------------------------------
\* The PersonList component of the client (PersonList.tsx, api/client.ts)

MaxChanges == 2
MaxTimers == 2
MaxListPage == 3

\* pageSize: 20 of loadPeople, scaled to the people of the server below
ListPageSize == 1

\* the people the server holds while the component is on display
ServerPeople == <<PersonAb, PersonBa, PersonBb>>

\* the values of searchQuery, selectedHobbies and selectedNationalities
ListFilters ==
    [search : {<< >>, <<"a">>},
     hobbies : {<< >>, <<"Golf">>},
     nationalities : {<< >>, <<"French">>}]

\* the query string fetchPeople builds: a parameter that is 0, '' or an empty
\* list is left out
toQuery(params) ==
    [page |-> IF params.page # 0 THEN Some(params.page) ELSE null,
     pageSize |-> IF params.pageSize # 0 THEN Some(params.pageSize) ELSE null,
     search |-> IF params.search # << >> THEN Some(params.search) ELSE null,
     hobbies |-> IF Len(params.hobbies) > 0 THEN Some(params.hobbies)
                 ELSE null,
     nationalities |-> IF Len(params.nationalities) > 0
                       THEN Some(params.nationalities) ELSE null]

\* the parameters loadPeople(pageNum, ...) gives fetchPeople when the filters
\* of its closure are f
loadParams(pageNum, f) ==
    [page |-> pageNum, pageSize |-> ListPageSize, hobbies |-> f.hobbies,
     nationalities |-> f.nationalities, search |-> f.search]

\* fetchPeople(params): the JSON of GET /api/people for the query
fetchPeople(params) == getPeople(ServerPeople, routeParams(toQuery(params)))

\* loadPeople(pageNum, reset) of the render whose filters are f, up to the
\* await: nothing when a load is in flight, else the fetch is sent
loadPeople(pageNum, reset, f) ==
    IF loadingRef
    THEN UNCHANGED <<loadingRef, fetches>>
    ELSE /\ loadingRef' = TRUE
         /\ fetches' = Append(fetches,
                          [pageNum |-> pageNum, reset |-> reset, filters |-> f])

\* the sequence without its i-th element
RemoveAt(seq, i) == SubSeq(seq, 1, i - 1) \o SubSeq(seq, i + 1, Len(seq))

\* the user types in the search box or toggles a hobby or a nationality: one
\* of the three filters changes, the component renders again and the effect
\* of the filters is due (React runs an effect that is due before it renders
\* again)
ChangeFilters(f) ==
    /\ changes < MaxChanges
    /\ ~effectPending
    /\ Cardinality({ k \in DOMAIN f : f[k] # selectedFilters[k] }) = 1
    /\ selectedFilters' = f
    /\ effectPending' = TRUE
    /\ changes' = changes + 1
    /\ UNCHANGED <<people, listPage, hasMore, totalCount, loadingRef, fetches,
                   timers, loadFailed>>
    /\ UNCHANGED notListVars

\* useEffect(..., [selectedHobbies, selectedNationalities, searchQuery,
\* loadPeople]): setPage(1); loadPeople(1, true)
FiltersEffect ==
    /\ effectPending
    /\ effectPending' = FALSE
    /\ listPage' = 1
    /\ loadPeople(1, TRUE, selectedFilters)
    /\ UNCHANGED <<selectedFilters, people, hasMore, totalCount, timers,
                   loadFailed, changes>>
    /\ UNCHANGED notListVars

\* handleScroll near the bottom of the list: setPage(prev => prev + 1) and
\* setTimeout(() => loadPeople(next, false), 0) with the loadPeople of this
\* render
handleScroll ==
    /\ ~effectPending
    /\ hasMore
    /\ ~loadingRef
    /\ Len(timers) < MaxTimers
    /\ listPage < MaxListPage
    /\ listPage' = listPage + 1
    /\ timers' = Append(timers,
                        [pageNum |-> listPage + 1, filters |-> selectedFilters])
    /\ UNCHANGED <<selectedFilters, people, hasMore, totalCount, loadingRef,
                   effectPending, fetches, loadFailed, changes>>
    /\ UNCHANGED notListVars

\* the timer of handleScroll fires: loadPeople(next, false)
TimerFires ==
    /\ timers # << >>
    /\ timers' = Tail(timers)
    /\ loadPeople(Head(timers).pageNum, FALSE, Head(timers).filters)
    /\ UNCHANGED <<selectedFilters, people, listPage, hasMore, totalCount,
                   effectPending, loadFailed, changes>>
    /\ UNCHANGED notListVars

\* loadPeople after the await, the fetch answered: setPeople, setTotalCount,
\* setHasMore, and in finally loadingRef.current = false
LoadResolves(i) ==
    /\ i \in 1..Len(fetches)
    /\ LET call == fetches[i]
           response == fetchPeople(loadParams(call.pageNum, call.filters))
       IN  /\ people' = IF call.reset THEN response.data
                        ELSE people \o response.data
           /\ totalCount' = response.total
           /\ hasMore' = (call.pageNum < response.totalPages)
    /\ loadingRef' = FALSE
    /\ fetches' = RemoveAt(fetches, i)
    /\ UNCHANGED <<selectedFilters, listPage, effectPending, timers,
                   loadFailed, changes>>
    /\ UNCHANGED notListVars

\* loadPeople after the await, the fetch failed: console.error, and in
\* finally loadingRef.current = false
LoadFails(i) ==
    /\ i \in 1..Len(fetches)
    /\ loadFailed' = TRUE
    /\ loadingRef' = FALSE
    /\ fetches' = RemoveAt(fetches, i)
    /\ UNCHANGED <<selectedFilters, people, listPage, hasMore, totalCount,
                   effectPending, timers, changes>>
    /\ UNCHANGED notListVars

ListNext ==
    \/ \E f \in ListFilters : ChangeFilters(f)
    \/ FiltersEffect
    \/ handleScroll
    \/ TimerFires
    \/ \E i \in 1..Len(fetches) : LoadResolves(i)
    \/ \E i \in 1..Len(fetches) : LoadFails(i)

ListSpec == Init /\ [][ListNext]_vars

\* nothing of the component is under way: no effect is due, no load is in
\* flight and no timer is set
Settled == ~effectPending /\ fetches = << >> /\ timers = << >>

\* the data of the pages ps[1], ps[2], ... of the filters f, one after the
\* other
RECURSIVE FetchedPages(_, _)
FetchedPages(ps, f) ==
    IF ps = << >> THEN << >>
    ELSE fetchPeople(loadParams(Head(ps), f)).data \o FetchedPages(Tail(ps), f)

\* the list on display is made of results of fetchPeople for the filters f:
\* page 1, then further pages
ShowsResultsOf(f) ==
    \E n \in 1..(Len(ServerPeople) + 1) :
        \E ps \in [1..n -> 1..(Len(ServerPeople) + 1)] :
            /\ ps[1] = 1
            /\ people = FetchedPages(ps, f)

\* C29: at most one fetchPeople call of the component is in flight, and once
\* nothing is under way (and no load failed) the list on display is the
\* result of fetchPeople for the current search text, hobbies and
\* nationalities
C29_ShowsCurrentFilters ==
    /\ Len(fetches) <= 1
    /\ (Settled /\ ~loadFailed) => ShowsResultsOf(selectedFilters)

----------------------------------------------------------------------------
\* GET /api/stream (routes/api.ts)

\* the texts faker.lorem.paragraphs produces; a character occurs more than
\* once in a text
Texts == { <<"a", "b">>, <<"b", "a", "a">> }

\* router.get('/stream'): the text is generated, index = 0, and setInterval
\* starts the timer
StreamRequest(r, text) ==
    /\ streams[r].state = "none"
    /\ streams' = [streams EXCEPT ![r] =
                      [state |-> "open", text |-> text, index |-> 0,
                       interval |-> TRUE, written |-> << >>, ended |-> FALSE,
                       writable |-> TRUE, closed |-> FALSE]]
    /\ UNCHANGED notStreamVars

\* the callback of setInterval: one character is written while there is one
\* and the response is writable; else clearInterval(interval) and res.end()
IntervalTick(r) ==
    /\ streams[r].interval
    /\ LET st == streams[r] IN
         IF st.index < Len(st.text) /\ st.writable
         THEN streams' = [streams EXCEPT
                             ![r].written = Append(@, st.text[st.index + 1]),
                             ![r].index = @ + 1]
         ELSE streams' = [streams EXCEPT ![r].interval = FALSE,
                                         ![r].ended = TRUE]
    /\ UNCHANGED notStreamVars

\* the response stops being writable (its socket was destroyed) before the
\* request has emitted 'close'
ResponseUnwritable(r) ==
    /\ streams[r].state = "open"
    /\ streams[r].writable
    /\ ~streams[r].ended
    /\ streams' = [streams EXCEPT ![r].writable = FALSE]
    /\ UNCHANGED notStreamVars

\* a 'close' of the request that leaves the timer running
ClientCloseKeepsTimer(r) ==
    /\ streams[r].state = "open"
    /\ ~streams[r].closed
    /\ streams' = [streams EXCEPT ![r].closed = TRUE]
    /\ UNCHANGED notStreamVars

\* _req.on('close'): the client has closed the connection;
\* clearInterval(interval)
ClientClose(r) ==
    /\ streams[r].state = "open"
    /\ ~streams[r].closed
    /\ streams' = [streams EXCEPT ![r].closed = TRUE,
                                  ![r].writable = FALSE,
                                  ![r].interval = FALSE]
    /\ UNCHANGED notStreamVars

StreamNext ==
    \/ \E r \in StreamIds : \E text \in Texts : StreamRequest(r, text)
    \/ \E r \in StreamIds : IntervalTick(r)
    \/ \E r \in StreamIds : ResponseUnwritable(r)
    \/ \E r \in StreamIds : ClientClose(r)

StreamSpec == Init /\ [][StreamNext]_vars

\* a timer that is set fires
StreamFairness == \A r \in StreamIds : WF_vars(IntervalTick(r))

StreamFairSpec == StreamSpec /\ StreamFairness

\* C30: the characters of the text are written one per tick of the timer, in
\* order and each once; the response is ended once the text is written or
\* the response is not writable; the timer is stopped when the response has
\* ended and when the client has closed, so nothing is written after either;
\* and a request that has come ends or is closed by its client
C30_StreamInOrder ==
    /\ [](\A r \in StreamIds :
            LET st == streams[r] IN
              /\ st.index = Len(st.written)
              /\ st.index <= Len(st.text)
              /\ st.written = SubSeq(st.text, 1, st.index)
              /\ (st.ended \/ st.closed) => ~st.interval
              /\ st.ended => (st.written = st.text \/ ~st.writable))
    /\ [][\A r \in StreamIds :
            streams'[r].written # streams[r].written
                => /\ IntervalTick(r)
                   /\ ~streams[r].ended
                   /\ ~streams[r].closed
                   /\ Len(streams'[r].written) = Len(streams[r].written) + 1]_vars
    /\ \A r \in StreamIds :
          (streams[r].state = "open") ~> (streams[r].ended \/ streams[r].closed)

\* C30 witness: one request got its whole text and was ended, another was
\* closed by its client in the middle of its text and its timer is stopped
C30_Witness ==
    \E r1, r2 \in StreamIds :
        /\ streams[r1].ended
        /\ streams[r1].written = streams[r1].text
        /\ Len(streams[r1].text) >= 2
        /\ ~streams[r1].closed
        /\ streams[r2].closed
        /\ ~streams[r2].ended
        /\ ~streams[r2].interval
        /\ Len(streams[r2].written) > 0
        /\ Len(streams[r2].written) < Len(streams[r2].text)

====
